---- MODULE Spec2Model ----
(***************************************************************************)
(* A model of pagedb.py: the CapturedPage record with its lazily unpacked  *)
(* fields and its dump(), and PageDB.get_pages, the generator that streams *)
(* rows from a named (server-side) psycopg2 cursor.                        *)
(***************************************************************************)
EXTENDS Integers, Sequences, FiniteSets, TLC

VARIABLES
    page,     \* the CapturedPage the consumer holds (its attributes)
    calls,    \* instrumentation: what the record's accessors did so far
    fp,       \* the byte sink handed to dump: the chunks written, in order
    last,     \* the outcome of the consumer's latest call on the record
    table,    \* the store: the rows of the joined captured_pages relation
    db,       \* PageDB.db: the connection (transaction status, portals)
    gen,      \* the get_pages generators, by id
    out       \* per generator: the records handed to the consumer so far

vars == <<page, calls, fp, last, table, db, gen, out>>
pageVars == <<page, calls, fp, last>>
dbVars == <<table, db, gen, out>>

(***************************************************************************)
(* Bounds of the model.                                                    *)
(***************************************************************************)
MaxOps == 2      \* consumer calls (accessor reads and dumps) on one record
MaxDumps == 2    \* of which dumps
MaxRows == 3     \* rows of a small table
NBig == 205      \* rows of the large table: two full batches and a partial one
MaxLimit == 3    \* the largest limit= passed to get_pages

(***************************************************************************)
(* Python values.  Every value is a record tagged with its type; the       *)
(* fields of two types never share a name.                                 *)
(***************************************************************************)
None == [t |-> "None"]
Str(s) == [t |-> "str", s |-> s]
\* bytes: `text` wrapped in the encoding layers `enc`, outermost first.
\* <<"zlib", "utf-8">> is a zlib stream of UTF-8 text.
Bytes(enc, text) == [t |-> "bytes", enc |-> enc, text |-> text]
Compressed(text) == Bytes(<<"zlib", "utf-8">>, text)
JsonObj(j) == [t |-> "dict", j |-> j]
DateTime(d, tm) == [t |-> "datetime", date |-> d, time |-> tm]

Returned(v) == [ok |-> TRUE, v |-> v]
Raised == [ok |-> FALSE, v |-> None]

\* zlib.decompress: strips one zlib layer; anything that is not a zlib stream
\* (None included) raises.
zlib_decompress(b) ==
    IF b.t = "bytes" /\ b.enc # <<>> /\ Head(b.enc) = "zlib"
    THEN Returned(Bytes(Tail(b.enc), b.text))
    ELSE Raised

\* bytes.decode("utf-8")
decode_utf8(b) ==
    IF b.t = "bytes" /\ b.enc = <<"utf-8">> THEN Returned(Str(b.text)) ELSE Raised

\* The JSON documents of the model and the values they parse to.
JsonDocs == ("{\"a\":1}" :> JsonObj([a |-> 1])) @@ ("{\"b\":2}" :> JsonObj([b |-> 2]))

\* json.loads
json_loads(s) ==
    IF s.t = "str" /\ s.s \in DOMAIN JsonDocs THEN Returned(JsonDocs[s.s]) ELSE Raised

\* datetime.isoformat(sep)
isoformat(dt, sep) == [t |-> "str", parts |-> <<dt.date, sep, dt.time>>]

(***************************************************************************)
(* html_extractor.ExtractedContent(url, html): the external extractor.     *)
(* A pure function of its arguments; it rejects the markup in BadMarkup.   *)
(***************************************************************************)
BadMarkup == {"<!bad"}

ExtractedContent(url, html) ==
    IF html.s \in BadMarkup
    THEN Raised
    ELSE Returned([t |-> "ExtractedContent",
                   text_content |-> [t |-> "text", of |-> html.s],
                   resources |-> [t |-> "list", kind |-> "resources",
                                  base |-> url, of |-> html.s],
                   links |-> [t |-> "list", kind |-> "links",
                              base |-> url, of |-> html.s]])

(***************************************************************************)
(* CapturedPage                                                            *)
(***************************************************************************)
\* CapturedPage.__init__(*row)
CapturedPage(row) ==
    [locale |-> row.locale,
     url |-> row.url,
     access_time |-> row.access_time,
     result |-> row.result,
     detail |-> row.detail,
     redir_url |-> row.redir_url,
     screenshot |-> row.screenshot,
     _capture_log |-> row.capture_log,
     _capture_log_unpacked |-> FALSE,
     _html_content |-> row.html_content,
     _html_content_unpacked |-> FALSE,
     _extracted |-> None]

\* The counters an instrumented decompressor and extractor keep for a record
\* built from row, and the values each accessor has returned.
NoCalls(row) ==
    [row |-> row, ops |-> 0, dumps |-> 0,
     capture_log_reads |-> 0, html_content_reads |-> 0, extraction_reads |-> 0,
     capture_log_decodes |-> 0, html_content_decodes |-> 0,
     extractions |-> 0, extractor_args |-> {},
     capture_log_returns |-> {}, html_content_returns |-> {},
     text_content_returns |-> {}, resources_returns |-> {}, links_returns |-> {}]

\* An accessor runs on e = [page, calls] and either returns a value or raises;
\* what it assigned before raising stays assigned.
Return(e, v) == [page |-> e.page, calls |-> e.calls, raised |-> FALSE, value |-> v]
Raise(e) == [page |-> e.page, calls |-> e.calls, raised |-> TRUE, value |-> None]

\* capture_log without line 50: the unpacking is never recorded.
capture_log_unrecorded(e) ==
    LET e0 == [e EXCEPT !.calls.capture_log_reads = @ + 1,
                        !.calls.capture_log_decodes = @ + 1]
        z == zlib_decompress(e0.page._capture_log)
        d == IF z.ok THEN decode_utf8(z.v) ELSE Raised
        j == IF d.ok THEN json_loads(d.v) ELSE Raised
    IN  IF j.ok
        THEN Return([e0 EXCEPT !.page._capture_log = j.v,
                               !.calls.capture_log_returns = @ \cup {j.v}],
                    j.v)
        ELSE Raise(e0)

\* property CapturedPage.capture_log
capture_log(e) ==
    LET e0 == [e EXCEPT !.calls.capture_log_reads = @ + 1]
    IN  IF ~e0.page._capture_log_unpacked
        THEN LET e1 == [e0 EXCEPT !.calls.capture_log_decodes = @ + 1]
                 z == zlib_decompress(e1.page._capture_log)
                 d == IF z.ok THEN decode_utf8(z.v) ELSE Raised
                 j == IF d.ok THEN json_loads(d.v) ELSE Raised
             IN  IF j.ok
                 THEN Return([e1 EXCEPT !.page._capture_log = j.v,
                                        !.page._capture_log_unpacked = TRUE,
                                        !.calls.capture_log_returns = @ \cup {j.v}],
                             j.v)
                 ELSE Raise(e1)
        ELSE Return([e0 EXCEPT !.calls.capture_log_returns =
                                   @ \cup {e0.page._capture_log}],
                    e0.page._capture_log)

\* html_content without line 58: the decoded text is stored but the unpacking
\* is never recorded, so the next read decompresses the text.
html_content_unrecorded(e) ==
    LET e0 == [e EXCEPT !.calls.html_content_reads = @ + 1,
                        !.calls.html_content_decodes = @ + 1]
        z == zlib_decompress(e0.page._html_content)
        d == IF z.ok THEN decode_utf8(z.v) ELSE Raised
    IN  IF d.ok
        THEN Return([e0 EXCEPT !.page._html_content = d.v,
                               !.calls.html_content_returns = @ \cup {d.v}],
                    d.v)
        ELSE Raise(e0)

\* html_content unpacking in two statements: the decompressed bytes are
\* stored before they are decoded.
html_content_stepwise(e) ==
    LET e0 == [e EXCEPT !.calls.html_content_reads = @ + 1]
    IN  IF ~e0.page._html_content_unpacked
        THEN LET e1 == [e0 EXCEPT !.calls.html_content_decodes = @ + 1]
                 z == zlib_decompress(e1.page._html_content)
                 e2 == IF z.ok THEN [e1 EXCEPT !.page._html_content = z.v] ELSE e1
                 d == IF z.ok THEN decode_utf8(z.v) ELSE Raised
             IN  IF d.ok
                 THEN Return([e2 EXCEPT !.page._html_content = d.v,
                                        !.page._html_content_unpacked = TRUE,
                                        !.calls.html_content_returns = @ \cup {d.v}],
                             d.v)
                 ELSE Raise(e2)
        ELSE Return([e0 EXCEPT !.calls.html_content_returns =
                                   @ \cup {e0.page._html_content}],
                    e0.page._html_content)

\* property CapturedPage.html_content
html_content(e) ==
    LET e0 == [e EXCEPT !.calls.html_content_reads = @ + 1]
    IN  IF ~e0.page._html_content_unpacked
        THEN LET e1 == [e0 EXCEPT !.calls.html_content_decodes = @ + 1]
                 z == zlib_decompress(e1.page._html_content)
                 d == IF z.ok THEN decode_utf8(z.v) ELSE Raised
             IN  IF d.ok
                 THEN Return([e1 EXCEPT !.page._html_content = d.v,
                                        !.page._html_content_unpacked = TRUE,
                                        !.calls.html_content_returns = @ \cup {d.v}],
                             d.v)
                 ELSE Raise(e1)
        ELSE Return([e0 EXCEPT !.calls.html_content_returns =
                                   @ \cup {e0.page._html_content}],
                    e0.page._html_content)

\* _do_extraction handing the extractor the stored _html_content attribute
\* instead of the html_content property: a blob that was never unpacked
\* reaches the extractor, which is run on it and rejects it.
_do_extraction_on_attribute(e) ==
    LET e0 == [e EXCEPT !.calls.extraction_reads = @ + 1]
    IN  IF e0.page._extracted = None
        THEN LET h == e0.page._html_content
                 e1 == [e0 EXCEPT !.calls.extractions = @ + 1,
                                  !.calls.extractor_args =
                                      @ \cup {<<e0.page.redir_url, h>>}]
                 x == IF h.t = "str"
                      THEN ExtractedContent(e1.page.redir_url, h)
                      ELSE Raised
             IN  IF x.ok
                 THEN Return([e1 EXCEPT !.page._extracted = x.v], None)
                 ELSE Raise(e1)
        ELSE Return(e0, None)

\* _do_extraction without the test of line 41: every call extracts.
_do_extraction_unconditional(e) ==
    LET e0 == [e EXCEPT !.calls.extraction_reads = @ + 1]
        h == html_content(e0)
    IN  IF h.raised
        THEN Raise(h)
        ELSE LET e1 == [page |-> h.page,
                        calls |-> [h.calls EXCEPT
                            !.extractions = @ + 1,
                            !.extractor_args =
                                @ \cup {<<h.page.redir_url, h.value>>}]]
                 x == ExtractedContent(e1.page.redir_url, h.value)
             IN  IF x.ok
                 THEN Return([e1 EXCEPT !.page._extracted = x.v], None)
                 ELSE Raise(e1)

\* CapturedPage._do_extraction
_do_extraction(e) ==
    LET e0 == [e EXCEPT !.calls.extraction_reads = @ + 1]
    IN  IF e0.page._extracted = None
        THEN LET h == html_content(e0)
             IN  IF h.raised
                 THEN Raise(h)
                 ELSE LET e1 == [page |-> h.page,
                                 calls |-> [h.calls EXCEPT
                                     !.extractions = @ + 1,
                                     !.extractor_args =
                                         @ \cup {<<h.page.redir_url, h.value>>}]]
                          x == ExtractedContent(e1.page.redir_url, h.value)
                      IN  IF x.ok
                          THEN Return([e1 EXCEPT !.page._extracted = x.v], None)
                          ELSE Raise(e1)
        ELSE Return(e0, None)

\* property CapturedPage.text_content
text_content(e) ==
    LET x == _do_extraction(e)
    IN  IF x.raised
        THEN x
        ELSE Return([page |-> x.page,
                     calls |-> [x.calls EXCEPT !.text_content_returns =
                                    @ \cup {x.page._extracted.text_content}]],
                    x.page._extracted.text_content)

\* property CapturedPage.resources
resources(e) ==
    LET x == _do_extraction(e)
    IN  IF x.raised
        THEN x
        ELSE Return([page |-> x.page,
                     calls |-> [x.calls EXCEPT !.resources_returns =
                                    @ \cup {x.page._extracted.resources}]],
                    x.page._extracted.resources)

\* property CapturedPage.links
links(e) ==
    LET x == _do_extraction(e)
    IN  IF x.raised
        THEN x
        ELSE Return([page |-> x.page,
                     calls |-> [x.calls EXCEPT !.links_returns =
                                    @ \cup {x.page._extracted.links}]],
                    x.page._extracted.links)

(***************************************************************************)
(* Strings are compared the way Python compares str and the store compares *)
(* text under the C collation: by code point, lexicographically.           *)
(***************************************************************************)
\* The characters of the strings that are compared, and ord() of each.
Chars ==
    ("0_url" :> <<"0", "_", "u", "r", "l">>) @@
    ("1_locale" :> <<"1", "_", "l", "o", "c", "a", "l", "e">>) @@
    ("2_access_time" :> <<"2", "_", "a", "c", "c", "e", "s", "s", "_", "t", "i", "m", "e">>) @@
    ("3_result" :> <<"3", "_", "r", "e", "s", "u", "l", "t">>) @@
    ("4_detail" :> <<"4", "_", "d", "e", "t", "a", "i", "l">>) @@
    ("5_redir" :> <<"5", "_", "r", "e", "d", "i", "r">>) @@
    ("6_log" :> <<"6", "_", "l", "o", "g">>) @@
    ("7_html" :> <<"7", "_", "h", "t", "m", "l">>) @@
    ("7_text" :> <<"7", "_", "t", "e", "x", "t">>) @@
    ("7_rsrcs" :> <<"7", "_", "r", "s", "r", "c", "s">>) @@
    ("7_links" :> <<"7", "_", "l", "i", "n", "k", "s">>) @@
    ("a" :> <<"a">>) @@ ("b" :> <<"b">>) @@ ("c" :> <<"c">>) @@
    ("de" :> <<"d", "e">>) @@ ("us" :> <<"u", "s">>)

ord ==
    ("0" :> 48) @@ ("1" :> 49) @@ ("2" :> 50) @@ ("3" :> 51) @@ ("4" :> 52) @@
    ("5" :> 53) @@ ("6" :> 54) @@ ("7" :> 55) @@ ("_" :> 95) @@
    ("a" :> 97) @@ ("b" :> 98) @@ ("c" :> 99) @@ ("d" :> 100) @@ ("e" :> 101) @@
    ("g" :> 103) @@ ("h" :> 104) @@ ("i" :> 105) @@ ("k" :> 107) @@
    ("l" :> 108) @@ ("m" :> 109) @@ ("n" :> 110) @@ ("o" :> 111) @@
    ("r" :> 114) @@ ("s" :> 115) @@ ("t" :> 116) @@ ("u" :> 117) @@
    ("x" :> 120)

RECURSIVE SeqLess(_, _)
SeqLess(a, b) ==
    IF b = <<>> THEN FALSE
    ELSE IF a = <<>> THEN TRUE
    ELSE IF ord[Head(a)] # ord[Head(b)] THEN ord[Head(a)] < ord[Head(b)]
    ELSE SeqLess(Tail(a), Tail(b))

\* str.__lt__
StrLess(a, b) == SeqLess(Chars[a], Chars[b])

\* sorted(keys)
RECURSIVE sorted(_)
sorted(keys) ==
    IF keys = {} THEN <<>>
    ELSE LET m == CHOOSE k \in keys : \A o \in keys \ {k} : StrLess(k, o)
         IN  <<m>> \o sorted(keys \ {m})

(***************************************************************************)
(* CapturedPage.dump                                                       *)
(***************************************************************************)
\* The keyword arguments of dump.
Flags == [capture_log : BOOLEAN, html_content : BOOLEAN, text_content : BOOLEAN,
          resources : BOOLEAN, links : BOOLEAN]

\* The dict literal dump starts from, in the order the source writes it.
ValKeys == <<"0_url", "1_locale", "2_access_time", "3_result", "4_detail",
             "5_redir", "6_log", "7_html", "7_text", "7_rsrcs", "7_links">>

\* The dict literal with "4_detail" left out when the row has no detail.
val0_without_null_detail(p) ==
    LET full == ("0_url" :> p.url) @@ ("1_locale" :> p.locale) @@
                ("2_access_time" :> isoformat(p.access_time, " ")) @@
                ("3_result" :> p.result) @@ ("4_detail" :> p.detail) @@
                ("5_redir" :> None) @@ ("6_log" :> None) @@ ("7_html" :> None) @@
                ("7_text" :> None) @@ ("7_rsrcs" :> None) @@ ("7_links" :> None)
    IN  IF p.detail = None
        THEN [k \in DOMAIN full \ {"4_detail"} |-> full[k]]
        ELSE full

val0(p) ==
    ("0_url" :> p.url) @@
    ("1_locale" :> p.locale) @@
    ("2_access_time" :> isoformat(p.access_time, " ")) @@
    ("3_result" :> p.result) @@
    ("4_detail" :> p.detail) @@
    ("5_redir" :> None) @@
    ("6_log" :> None) @@
    ("7_html" :> None) @@
    ("7_text" :> None) @@
    ("7_rsrcs" :> None) @@
    ("7_links" :> None)

\* Line 96 without the test of line 95.
set_redir_unconditional(val, p) == [val EXCEPT !["5_redir"] = p.redir_url]

\* if self.redir_url != self.url: val["5_redir"] = self.redir_url
set_redir(val, p) ==
    IF p.redir_url # p.url THEN [val EXCEPT !["5_redir"] = p.redir_url] ELSE val

\* One line "if flag: val[key] = self.accessor" of dump, run on
\* d = [page, calls, raised, val]; a raise skips the rest of dump.
RunAccessor(d, r, key) ==
    IF r.raised
    THEN [page |-> r.page, calls |-> r.calls, raised |-> TRUE, val |-> d.val]
    ELSE [page |-> r.page, calls |-> r.calls, raised |-> FALSE,
          val |-> [d.val EXCEPT ![key] = r.value]]

\* Line 98 without its test: the capture log is read whatever the flag.
if_capture_log_ungated(d, flag) ==
    IF d.raised THEN d ELSE RunAccessor(d, capture_log(d), "6_log")

if_capture_log(d, flag) ==
    IF d.raised \/ ~flag THEN d ELSE RunAccessor(d, capture_log(d), "6_log")

if_html_content(d, flag) ==
    IF d.raised \/ ~flag THEN d ELSE RunAccessor(d, html_content(d), "7_html")

if_text_content(d, flag) ==
    IF d.raised \/ ~flag THEN d ELSE RunAccessor(d, text_content(d), "7_text")

if_resources(d, flag) ==
    IF d.raised \/ ~flag THEN d ELSE RunAccessor(d, resources(d), "7_rsrcs")

\* Line 104 without its test: the links are read whatever the flag.
if_links_ungated(d, flag) ==
    IF d.raised THEN d ELSE RunAccessor(d, links(d), "7_links")

if_links(d, flag) ==
    IF d.raised \/ ~flag THEN d ELSE RunAccessor(d, links(d), "7_links")

\* json.dumps without sort_keys: the members in the order of the dict literal.
json_dumps_unsorted(val) ==
    LET ks == SelectSeq(ValKeys, LAMBDA k : k \in DOMAIN val)
    IN  [t |-> "bytes", enc |-> <<"utf-8">>,
         members |-> [i \in 1..Len(ks) |-> <<ks[i], val[ks[i]]>>]]

\* json.dumps(val, sort_keys=True).encode("utf-8"): the members of the object
\* in the order they are rendered, each a <<key, value>> pair.
json_dumps(val) ==
    LET ks == sorted(DOMAIN val)
    IN  [t |-> "bytes", enc |-> <<"utf-8">>,
         members |-> [i \in 1..Len(ks) |-> <<ks[i], val[ks[i]]>>]]

Newline == [t |-> "bytes", enc |-> <<"utf-8">>, nl |-> 1]

\* The two writes of lines 104-105 run even after an accessor raised, on the
\* dict as far as it was filled.
written_despite_raise(d) == <<json_dumps(d.val), Newline>>

\* fp.write(json.dumps(val, sort_keys=True).encode("utf-8")); fp.write(b'\n'):
\* the chunks written, none when an accessor raised.
written(d) == IF d.raised THEN <<>> ELSE <<json_dumps(d.val), Newline>>

\* dump(fp, **f) run on e = [page, calls]: the record's state afterwards,
\* whether it raised, and the chunks it wrote to fp.  d0 .. d5 are the states
\* after the dict is built and after each of the five "if flag:" lines.
dump(e, f) ==
    CHOOSE r \in
        {[page |-> d5.page, calls |-> d5.calls, raised |-> d5.raised,
          written |-> written(d5)] :
            d5 \in {if_links(d4, f.links) :
            d4 \in {if_resources(d3, f.resources) :
            d3 \in {if_text_content(d2, f.text_content) :
            d2 \in {if_html_content(d1, f.html_content) :
            d1 \in {if_capture_log(d0, f.capture_log) :
            d0 \in {[page |-> e.page, calls |-> e.calls, raised |-> FALSE,
                     val |-> set_redir(val0(e.page), e.page)]}}}}}}} : TRUE

(***************************************************************************)
(* The rows of the model: what the store holds, and what a consumer may    *)
(* build a CapturedPage from.                                              *)
(***************************************************************************)
Row(locale, url, redir_url, detail, log, html) ==
    [locale |-> locale, url |-> url,
     access_time |-> DateTime("2014-05-01", "12:00:00"),
     result |-> Str("ok"), detail |-> detail, redir_url |-> redir_url,
     capture_log |-> log, html_content |-> html,
     screenshot |-> Bytes(<<"png">>, "shot")]

Rows ==
    << \* no redirect, both blobs sound
       Row(Str("us"), Str("b"), Str("b"), None,
           Compressed("{\"a\":1}"), Compressed("<p>hi</p>")),
       \* redirected, both blobs sound
       Row(Str("de"), Str("a"), Str("c"), Str("moved"),
           Compressed("{\"b\":2}"), Compressed("<a href=x>")),
       \* capture log is not a zlib stream; the extractor rejects the markup
       Row(Str("us"), Str("a"), Str("a"), None,
           Bytes(<<"utf-8">>, "{\"a\":1}"), Compressed("<!bad")),
       \* capture log is not JSON; html_content is NULL
       Row(Str("us"), Str("b"), Str("a"), Str("timeout"),
           Compressed("<p>hi</p>"), None),
       \* redirect target unresolved (NULL); html is not UTF-8
       Row(Str("us"), Str("c"), None, None,
           Compressed("{\"a\":1}"), Bytes(<<"zlib", "latin-1">>, "<p>hi</p>")) >>

(***************************************************************************)
(* The consumer's calls on the record it holds.                            *)
(***************************************************************************)
self == [page |-> page, calls |-> calls]

Called(op, f, r) ==
    /\ page' = r.page
    /\ calls' = [r.calls EXCEPT !.ops = @ + 1,
                                !.dumps = IF op = "dump" THEN @ + 1 ELSE @]
    /\ last' = [op |-> op, flags |-> f, fresh |-> calls.ops = 0,
                raised |-> r.raised, before |-> Len(fp),
                prior |-> [page |-> page, calls |-> calls, fp |-> fp]]

NoFlags == [capture_log |-> FALSE, html_content |-> FALSE, text_content |-> FALSE,
            resources |-> FALSE, links |-> FALSE]

CanCall == page # None /\ calls.ops < MaxOps

GetCaptureLog ==
    /\ CanCall
    /\ Called("capture_log", NoFlags, capture_log(self))
    /\ UNCHANGED <<fp, dbVars>>

GetHtmlContent ==
    /\ CanCall
    /\ Called("html_content", NoFlags, html_content(self))
    /\ UNCHANGED <<fp, dbVars>>

GetTextContent ==
    /\ CanCall
    /\ Called("text_content", NoFlags, text_content(self))
    /\ UNCHANGED <<fp, dbVars>>

GetResources ==
    /\ CanCall
    /\ Called("resources", NoFlags, resources(self))
    /\ UNCHANGED <<fp, dbVars>>

GetLinks ==
    /\ CanCall
    /\ Called("links", NoFlags, links(self))
    /\ UNCHANGED <<fp, dbVars>>

Dump ==
    /\ CanCall
    /\ calls.dumps < MaxDumps
    /\ \E f \in Flags : \E r \in {dump(self, f)} :
          /\ Called("dump", f, r)
          /\ fp' = fp \o r.written
    /\ UNCHANGED dbVars

NextPage ==
    \/ GetCaptureLog
    \/ GetHtmlContent
    \/ GetTextContent
    \/ GetResources
    \/ GetLinks
    \/ Dump

(***************************************************************************)
(* The store.  A query is what get_pages assembles; the store parses the   *)
(* clauses back and evaluates them over the table.                         *)
(***************************************************************************)
PyInt(n) == [t |-> "int", n |-> n]

Min(a, b) == IF a < b THEN a ELSE b

\* "{}".format(n) of a non-negative int: its decimal digits.
RECURSIVE format_int(_)
format_int(n) == IF n < 10 THEN <<n>> ELSE format_int(n \div 10) \o <<n % 10>>

\* The store reading a decimal literal.
RECURSIVE parse_int(_)
parse_int(ds) ==
    IF Len(ds) = 1 THEN ds[1]
    ELSE 10 * parse_int(SubSeq(ds, 1, Len(ds) - 1)) + ds[Len(ds)]

\* The filter expressions of the model that the store accepts, and the rows
\* each selects; it rejects any other text.
Predicates == {"c.locale = 'us'", "u.url <> 'a'"}
Malformed == "c.locale ="

Satisfies(row, w) ==
    CASE w = "c.locale = 'us'" -> row.locale = Str("us")
      [] w = "u.url <> 'a'" -> row.url # Str("a")

\* ORDER BY u.url, c.locale
RowLess(a, b) ==
    \/ StrLess(a.url.s, b.url.s)
    \/ a.url = b.url /\ StrLess(a.locale.s, b.locale.s)

\* Every order in which the rows of g, whose keys are all equal, may come.
Arrangements(g) ==
    IF \A i, j \in DOMAIN g : g[i] = g[j]
    THEN {g}
    ELSE {[i \in DOMAIN g |-> g[f[i]]] :
             f \in {f \in [DOMAIN g -> DOMAIN g] :
                       \A i, j \in DOMAIN g : i # j => f[i] # f[j]}}

\* Every arrangement of rows that ORDER BY may produce: ascending by key, the
\* rows of one key in any order.  m is a row of the least key.
RECURSIVE OrderBy(_)
OrderBy(rows) ==
    IF rows = <<>> THEN {<<>>}
    ELSE UNION
           {{g \o rest :
                g \in Arrangements(SelectSeq(rows, LAMBDA r : ~RowLess(m, r))),
                rest \in OrderBy(SelectSeq(rows, LAMBDA r : RowLess(m, r)))} :
            m \in {rows[CHOOSE i \in DOMAIN rows :
                           \A j \in DOMAIN rows : ~RowLess(rows[j], rows[i])]}}

WhereOf(q, tbl) ==
    IF q.where = <<>> THEN tbl
    ELSE SelectSeq(tbl, LAMBDA r : Satisfies(r, q.where[1]))

OrderOf(q, rows) == IF q.order_by = <<>> THEN {rows} ELSE OrderBy(rows)

LimitOf(q, rows) ==
    IF q.limit = <<>> THEN rows
    ELSE SubSeq(rows, 1, Min(parse_int(q.limit[1]), Len(rows)))

\* The store rejects a query whose WHERE clause it cannot parse.
Rejects(q) == q.where # <<>> /\ q.where[1] \notin Predicates

\* The result sets of a store that cuts the rows to the limit before it
\* orders them.
ResultSets_limit_first(q, tbl) == OrderOf(q, LimitOf(q, WhereOf(q, tbl)))

\* The result sets the store may produce for q: filter, then order, then limit.
ResultSets(q, tbl) == {LimitOf(q, rows) : rows \in OrderOf(q, WhereOf(q, tbl))}

(***************************************************************************)
(* PageDB                                                                  *)
(***************************************************************************)
itersize == 100
getpid == 4242

\* "pagedb_qtmp_{}".format(os.getpid())
CursorName == <<"pagedb_qtmp_", format_int(getpid)>>

\* psycopg2.connect(connstr): an open connection outside any transaction.
\* portals are the server-side cursors declared in the current transaction.
connect == [status |-> "idle", closed |-> FALSE, portals |-> {}, ended |-> "never"]

\* The keyword arguments of get_pages.
Args == [ordered : BOOLEAN,
         where_clause : {""} \cup Predicates \cup {Malformed},
         limit : {None} \cup {PyInt(k) : k \in 0..MaxLimit}]

\* The query with line 136 reading "if limit:", which drops LIMIT 0.
query_without_zero_limit(a) ==
    [select |-> "captured_pages",
     where |-> IF a.where_clause # "" THEN <<a.where_clause>> ELSE <<>>,
     order_by |-> IF a.ordered THEN <<"u.url", "c.locale">> ELSE <<>>,
     limit |-> IF a.limit # None /\ a.limit.n # 0
               THEN <<format_int(a.limit.n)>> ELSE <<>>]

\* The query get_pages assembles from its arguments.
query(a) ==
    [select |-> "captured_pages",
     where |-> IF a.where_clause # "" THEN <<a.where_clause>> ELSE <<>>,
     order_by |-> IF a.ordered THEN <<"u.url", "c.locale">> ELSE <<>>,
     limit |-> IF a.limit # None THEN <<format_int(a.limit.n)>> ELSE <<>>]

\* A generator get_pages has not been called for.
NoGen == [pc |-> "absent", args |-> None, cur |-> None, abandoned |-> FALSE]

\* self.db.cursor(name): a named cursor, nothing fetched; psycopg2's default
\* itersize is 2000.
cursor(name) == [name |-> name, itersize |-> 2000, closed |-> FALSE,
                 rows |-> <<>>, row |-> 0]

\* cur.execute(query) on a named cursor, run on x = [db, cur, raised]: opens
\* the transaction and DECLAREs the portal over the result set rs.
execute(x, q, rs) ==
    IF Rejects(q) \/ \E p \in x.db.portals : p.name = x.cur.name
    THEN [x EXCEPT !.db.status = "inerror", !.raised = TRUE]
    ELSE [x EXCEPT !.db.status = "intrans",
                   !.db.portals = @ \cup {[name |-> x.cur.name, rows |-> rs, pos |-> 0]}]

\* The fetch of a cursor that is not named: every remaining row at once.
FetchForward_all(p, n) == SubSeq(p.rows, p.pos + 1, Len(p.rows))

\* FETCH FORWARD n FROM name: the next n rows of the portal, at most.
FetchForward(p, n) == SubSeq(p.rows, p.pos + 1, Min(p.pos + n, Len(p.rows)))

\* One step of "for row in cur" on x = [db, cur, raised]: when the rows held
\* are used up, fetch the next batch; the store may fail the fetch.
fetch(x, fetch_ok) ==
    IF x.cur.row < Len(x.cur.rows) THEN x
    ELSE IF ~fetch_ok \/ ~\E p \in x.db.portals : p.name = x.cur.name
    THEN [x EXCEPT !.db.status = "inerror", !.raised = TRUE]
    ELSE LET p == CHOOSE p \in x.db.portals : p.name = x.cur.name
             batch == FetchForward(p, x.cur.itersize)
         IN  [x EXCEPT !.cur.rows = batch, !.cur.row = 0,
                       !.db.portals = (@ \ {p}) \cup
                                      {[p EXCEPT !.pos = @ + Len(batch)]}]

\* cursor.__exit__: close().  A named cursor sends CLOSE unless the
\* transaction is in error; CLOSE of a portal that is gone raises.
cursor_exit(x) ==
    IF x.db.status = "inerror"
    THEN [x EXCEPT !.cur.closed = TRUE]
    ELSE IF \E p \in x.db.portals : p.name = x.cur.name
    THEN [x EXCEPT !.cur.closed = TRUE,
                   !.db.portals = {p \in @ : p.name # x.cur.name}]
    ELSE [x EXCEPT !.cur.closed = TRUE, !.db.status = "inerror", !.raised = TRUE]

\* connection.__exit__: commit, or rollback when leaving on an exception.
\* Either ends the transaction and with it every portal declared in it; the
\* connection stays open.
connection_exit(x) ==
    [x EXCEPT !.db.status = "idle", !.db.portals = {},
              !.db.ended = IF x.raised THEN "rollback" ELSE "commit"]

\* Leaving "with self.db, self.db.cursor(...) as cur": the cursor's exit
\* first, then the connection's.
with_exit(x) == connection_exit(cursor_exit(x))

(***************************************************************************)
(* get_pages: a generator.  Calling it runs none of its body; each pull    *)
(* runs the body up to the next yield or to its end.                       *)
(***************************************************************************)
Gens == {1, 2}

\* The result sets the store may give the portal of q; a rejected query has none.
Planned(q, tbl) == IF Rejects(q) THEN {<<>>} ELSE ResultSets(q, tbl)

\* From the first line of get_pages to cur.execute(query).
start(g, rs) ==
    execute([db |-> db,
             cur |-> [cursor(CursorName) EXCEPT !.itersize = itersize],
             raised |-> FALSE],
            query(gen[g].args), rs)

\* Where a pull picks the body up: at its first line, or after the yield.
resume(g) ==
    IF gen[g].pc = "created"
    THEN {start(g, rs) : rs \in Planned(query(gen[g].args), table)}
    ELSE {[db |-> db, cur |-> gen[g].cur, raised |-> FALSE]}

\* The loop "for row in cur: yield CapturedPage(*row)" up to its next yield,
\* or out of the with block when the rows run out or something raised.
step(x, fetch_ok) ==
    LET y == IF x.raised THEN x ELSE fetch(x, fetch_ok)
    IN  IF y.raised \/ y.cur.row >= Len(y.cur.rows)
        THEN LET z == with_exit(y)
             IN  [kind |-> IF z.raised THEN "failed" ELSE "exhausted", x |-> z]
        ELSE [kind |-> "suspended", x |-> [y EXCEPT !.cur.row = @ + 1],
              row |-> y.cur.rows[y.cur.row + 1]]

NoCall == [op |-> "none", flags |-> NoFlags, fresh |-> FALSE, raised |-> FALSE,
           before |-> 0, prior |-> [page |-> None, calls |-> NoCalls(None),
                                    fp |-> <<>>]]

\* get_pages as a plain function that opens the cursor and executes the
\* query before it returns the iterator.
GetPages_eager(g) ==
    /\ gen[g].pc = "absent"
    /\ \E a \in Args : \E rs \in Planned(query(a), table) :
       \E x \in {execute([db |-> db,
                          cur |-> [cursor(CursorName) EXCEPT !.itersize = itersize],
                          raised |-> FALSE],
                         query(a), rs)} :
       \E z \in {IF x.raised THEN with_exit(x) ELSE x} :
          /\ db' = z.db
          /\ gen' = [gen EXCEPT ![g].pc = IF x.raised THEN "failed" ELSE "created",
                                ![g].args = a, ![g].cur = z.cur]
    /\ UNCHANGED <<pageVars, table, out>>

\* gen = db.get_pages(**a)
GetPages(g) ==
    /\ gen[g].pc = "absent"
    /\ \E a \in Args : gen' = [gen EXCEPT ![g].pc = "created", ![g].args = a]
    /\ UNCHANGED <<pageVars, table, db, out>>

\* next(gen): the consumer pulls a record.
Pull(g) ==
    /\ gen[g].pc \in {"created", "suspended"}
    /\ ~gen[g].abandoned
    /\ \E fetch_ok \in BOOLEAN : \E x \in resume(g) :
       \E r \in {step(x, fetch_ok)} :
          /\ db' = r.x.db
          /\ gen' = [gen EXCEPT ![g].pc = r.kind, ![g].cur = r.x.cur]
          /\ IF r.kind = "suspended"
             THEN /\ out' = [out EXCEPT ![g] = Append(@, r.row)]
                  /\ page' = CapturedPage(r.row)
                  /\ calls' = NoCalls(r.row)
                  /\ last' = NoCall
             ELSE UNCHANGED <<out, page, calls, last>>
    /\ UNCHANGED <<fp, table>>

\* GeneratorExit raised at the yield: the with block is left on an exception.
close(g) ==
    LET z == with_exit([db |-> db, cur |-> gen[g].cur, raised |-> TRUE])
    IN  /\ db' = z.db
        /\ gen' = [gen EXCEPT ![g].pc = "closed", ![g].cur = z.cur]

\* The consumer stops pulling before the rows run out.  The generator is
\* closed at once when that drops its last reference under reference
\* counting; otherwise it stays suspended at its yield.
Abandon(g) ==
    /\ gen[g].pc = "suspended"
    /\ ~gen[g].abandoned
    /\ \/ close(g)
       \/ /\ gen' = [gen EXCEPT ![g].abandoned = TRUE]
          /\ UNCHANGED db
    /\ UNCHANGED <<pageVars, table, out>>

\* The abandoned generator is collected, or closed by whoever still held it.
Finalize(g) ==
    /\ gen[g].pc = "suspended"
    /\ gen[g].abandoned
    /\ close(g)
    /\ UNCHANGED <<pageVars, table, out>>

(***************************************************************************)
(* Specifications.                                                         *)
(***************************************************************************)
\* Small tables: distinct rows in every order the store may hold them.
TableRows == 1..4

SmallTables ==
    UNION {{[i \in 1..n |-> Rows[f[i]]] :
               f \in {f \in [1..n -> TableRows] :
                          \A i, j \in 1..n : i # j => f[i] # f[j]}} :
           n \in 0..MaxRows}

BigTable == [i \in 1..NBig |-> Rows[(i % 2) + 1]]

InitStore ==
    /\ db = connect
    /\ gen = [g \in Gens |-> NoGen]
    /\ out = [g \in Gens |-> <<>>]

\* A consumer holding one record, built from a row.
InitPage ==
    /\ \E i \in DOMAIN Rows : page = CapturedPage(Rows[i]) /\ calls = NoCalls(Rows[i])
    /\ fp = <<>>
    /\ last = NoCall
    /\ table = <<>>
    /\ InitStore

SpecPage == InitPage /\ [][NextPage]_vars

\* A PageDB over a table, and one retrieval from it.
InitDB ==
    /\ page = None
    /\ calls = NoCalls(None)
    /\ fp = <<>>
    /\ last = NoCall
    /\ table \in SmallTables \cup {BigTable}
    /\ InitStore

NextDB == GetPages(1) \/ Pull(1) \/ Abandon(1) \/ Finalize(1)

SpecDB == InitDB /\ [][NextDB]_vars

\* A PageDB over a table of two rows, and two retrievals from it whose
\* iterations the consumer may interleave.
InitConc ==
    /\ page = None
    /\ calls = NoCalls(None)
    /\ fp = <<>>
    /\ last = NoCall
    /\ table = <<Rows[1], Rows[2]>>
    /\ InitStore

NextConc == \E g \in Gens : GetPages(g) \/ Pull(g) \/ Abandon(g) \/ Finalize(g)

SpecConc == InitConc /\ [][NextConc]_vars

(***************************************************************************)
(* Properties of CapturedPage, checked under SpecPage.                     *)
(***************************************************************************)
\* What the two blobs of the record's row decode to.
DecodedLog ==
    LET z == zlib_decompress(calls.row.capture_log)
        d == IF z.ok THEN decode_utf8(z.v) ELSE Raised
    IN  IF d.ok THEN json_loads(d.v) ELSE Raised

DecodedHtml ==
    LET z == zlib_decompress(calls.row.html_content)
    IN  IF z.ok THEN decode_utf8(z.v) ELSE Raised

\* C1 as stated: a field that was read at all was decoded exactly once, and
\* every read returned the same value.
C1_DecodedExactlyOnce ==
    /\ calls.capture_log_reads > 0 => calls.capture_log_decodes = 1
    /\ calls.html_content_reads > 0 => calls.html_content_decodes = 1
    /\ Cardinality(calls.capture_log_returns) <= 1
    /\ Cardinality(calls.html_content_returns) <= 1

\* C1 amended: a field whose blob decodes is decoded exactly once if it is
\* read at all, directly or through extraction or dump, and every read returns
\* the value decoded then; a field whose blob does not decode is decoded
\* again at every read, and nothing is returned or cached.
C1_LazyDecode ==
    /\ calls.capture_log_reads = 0 => calls.capture_log_decodes = 0
    /\ calls.html_content_reads = 0 => calls.html_content_decodes = 0
    /\ DecodedLog.ok /\ calls.capture_log_reads > 0 =>
          /\ calls.capture_log_decodes = 1
          /\ calls.capture_log_returns = {DecodedLog.v}
    /\ DecodedHtml.ok /\ calls.html_content_reads > 0 =>
          /\ calls.html_content_decodes = 1
          /\ calls.html_content_returns = {DecodedHtml.v}
    /\ ~DecodedLog.ok =>
          /\ calls.capture_log_decodes = calls.capture_log_reads
          /\ calls.capture_log_returns = {}
          /\ ~page._capture_log_unpacked
          /\ page._capture_log = calls.row.capture_log
    /\ ~DecodedHtml.ok =>
          /\ calls.html_content_decodes = calls.html_content_reads
          /\ calls.html_content_returns = {}
          /\ ~page._html_content_unpacked
          /\ page._html_content = calls.row.html_content

\* Both fields read more than once, html_content also through extraction,
\* each decoded once.
C1_Witness ==
    /\ calls.capture_log_reads >= 2 /\ calls.capture_log_decodes = 1
    /\ calls.html_content_reads >= 2 /\ calls.html_content_decodes = 1
    /\ calls.extractions = 1

\* What the extractor makes of the record's row, when its HTML decodes.
Extracted == ExtractedContent(calls.row.redir_url, DecodedHtml.v)

\* C2 as stated: once text_content, resources or links was read, the extractor
\* has run exactly once, on (redir_url, decompressed html).
C2_ExtractedExactlyOnce ==
    calls.extraction_reads > 0 =>
        /\ calls.extractions = 1
        /\ calls.extractor_args = {<<calls.row.redir_url, DecodedHtml.v>>}

\* C2 amended: when the HTML decodes and the extractor accepts it, the
\* extractor runs exactly once over all reads of text_content, resources and
\* links, on (redir_url, decompressed html), and the three views are served from
\* that one result; when the HTML does not decode the extractor never runs; when
\* the extractor raises nothing is cached and every read runs it again.
C2_ExtractionMemoized ==
    /\ calls.extraction_reads = 0 => calls.extractions = 0 /\ page._extracted = None
    /\ ~DecodedHtml.ok => calls.extractions = 0 /\ page._extracted = None
    /\ DecodedHtml.ok =>
          /\ calls.extractor_args \subseteq {<<calls.row.redir_url, DecodedHtml.v>>}
          /\ ~Extracted.ok =>
                /\ calls.extractions = calls.extraction_reads
                /\ page._extracted = None
          /\ Extracted.ok /\ calls.extraction_reads > 0 =>
                /\ calls.extractions = 1
                /\ calls.extractor_args = {<<calls.row.redir_url, DecodedHtml.v>>}
                /\ page._extracted = Extracted.v
                /\ calls.text_content_returns \subseteq {Extracted.v.text_content}
                /\ calls.resources_returns \subseteq {Extracted.v.resources}
                /\ calls.links_returns \subseteq {Extracted.v.links}

\* All three views read, one extraction.
C2_Witness ==
    /\ calls.text_content_returns # {}
    /\ calls.resources_returns # {}
    /\ calls.links_returns # {}
    /\ calls.extractions = 1

\* The records written to fp, and the value of a member of one.
IsRecord(chunk) == "members" \in DOMAIN chunk
Written == {fp[i] : i \in {i \in DOMAIN fp : IsRecord(fp[i])}}
KeysOf(rec) == [i \in DOMAIN rec.members |-> rec.members[i][1]]
Member(rec, key) ==
    rec.members[CHOOSE i \in DOMAIN rec.members : rec.members[i][1] = key][2]

\* The state right after dump was called on a record nothing had touched.
FreshDump == last.op = "dump" /\ last.fresh
FreshRecord == fp[Len(fp) - 1]
NullInFresh(key) == ~last.raised => Member(FreshRecord, key) = None
AnyExtractionFlag ==
    last.flags.text_content \/ last.flags.resources \/ last.flags.links

\* C4 as stated: in a dump of a fresh record each field whose flag is unset is
\* null and its own lazy work was not done: the capture log's decompression,
\* the HTML's decompression, the extraction behind text, resources and links.
C4_EachFlagGatesItsWork ==
    FreshDump =>
        /\ ~last.flags.capture_log =>
              NullInFresh("6_log") /\ calls.capture_log_decodes = 0
        /\ ~last.flags.html_content =>
              NullInFresh("7_html") /\ calls.html_content_decodes = 0
        /\ ~last.flags.text_content =>
              NullInFresh("7_text") /\ calls.extractions = 0
        /\ ~last.flags.resources =>
              NullInFresh("7_rsrcs") /\ calls.extractions = 0
        /\ ~last.flags.links =>
              NullInFresh("7_links") /\ calls.extractions = 0

\* C4 amended: in a dump of a fresh record each field whose flag is unset is
\* null; the capture log is decompressed only if capture_log is set, the
\* extractor runs only if text_content, resources or links is set, and the HTML
\* is decompressed only if html_content or one of those three is set.
C4_FlagsGateWork ==
    FreshDump =>
        /\ ~last.flags.capture_log => NullInFresh("6_log")
        /\ ~last.flags.html_content => NullInFresh("7_html")
        /\ ~last.flags.text_content => NullInFresh("7_text")
        /\ ~last.flags.resources => NullInFresh("7_rsrcs")
        /\ ~last.flags.links => NullInFresh("7_links")
        /\ ~last.flags.capture_log =>
              calls.capture_log_reads = 0 /\ calls.capture_log_decodes = 0
        /\ ~AnyExtractionFlag =>
              calls.extraction_reads = 0 /\ calls.extractions = 0
        /\ ~(last.flags.html_content \/ AnyExtractionFlag) =>
              calls.html_content_reads = 0 /\ calls.html_content_decodes = 0

\* A fresh record dumped with text_content alone: the HTML was decompressed
\* for the extraction, and the html and capture_log fields are null.
C4_Witness ==
    /\ FreshDump /\ ~last.raised
    /\ last.flags = [NoFlags EXCEPT !.text_content = TRUE]
    /\ calls.html_content_decodes = 1 /\ calls.capture_log_decodes = 0
    /\ Member(FreshRecord, "7_html") = None
    /\ Member(FreshRecord, "6_log") = None
    /\ Member(FreshRecord, "7_text") # None

\* C5: the redirect field of every record written is null when redir_url
\* equals url, and redir_url when they differ.
C5_RedirectField ==
    \A rec \in Written :
        Member(rec, "5_redir") =
            IF calls.row.redir_url = calls.row.url THEN None ELSE calls.row.redir_url

\* A record of a page that was not redirected, and its null redirect field.
C5_Witness ==
    /\ calls.row.redir_url = calls.row.url
    /\ \E rec \in Written : Member(rec, "5_redir") = None /\ Member(rec, "7_html") # None

\* C9 as stated: every record written has exactly ten fields.
C9_TenFields == \A rec \in Written : Len(rec.members) = 10

\* C9 amended: every record written has exactly eleven fields, the same
\* eleven whatever the flags and the data: six immediate (url, locale,
\* access_time, result, detail, redirect) and five derived (capture log, html,
\* text, resources, links), each holding a value or null.
C9_ElevenFields ==
    \A rec \in Written :
        /\ Len(rec.members) = 11
        /\ {rec.members[i][1] : i \in DOMAIN rec.members} =
               {ValKeys[i] : i \in DOMAIN ValKeys}

\* A record written with no flag set for a row without detail: eleven fields.
C9_Witness ==
    \E rec \in Written :
        /\ last.op = "dump" /\ last.flags = NoFlags
        /\ Len(rec.members) = 11
        /\ Member(rec, "4_detail") = None

\* C10 as stated: every record is rendered in the order url, locale,
\* access_time, result, detail, redirect, capture_log, html, text, resources,
\* links.
C10_OrderAsListed ==
    \A rec \in Written :
        KeysOf(rec) = <<"0_url", "1_locale", "2_access_time", "3_result",
                        "4_detail", "5_redir", "6_log",
                        "7_html", "7_text", "7_rsrcs", "7_links">>

\* C10 amended: every record is rendered in one fixed order, that of its
\* sorted keys: url, locale, access_time, result, detail, redirect,
\* capture_log, html, links, resources, text.
C10_OrderOfSortedKeys ==
    \A rec \in Written :
        KeysOf(rec) = <<"0_url", "1_locale", "2_access_time", "3_result",
                        "4_detail", "5_redir", "6_log",
                        "7_html", "7_links", "7_rsrcs", "7_text">>

\* A record written with every flag set.
C10_Witness ==
    \E rec \in Written :
        /\ last.op = "dump" /\ \A k \in DOMAIN last.flags : last.flags[k]
        /\ Member(rec, "7_links") # None /\ Member(rec, "7_text") # None

\* The state right after dump was called with no flag set, the record it
\* wrote, and the lazy work done during that call.
PlainDump == last.op = "dump" /\ last.flags = NoFlags
LastRecord == fp[Len(fp) - 1]
NoWorkInLastCall ==
    /\ calls.capture_log_decodes = last.prior.calls.capture_log_decodes
    /\ calls.html_content_decodes = last.prior.calls.html_content_decodes
    /\ calls.extractions = last.prior.calls.extractions
ImmediateKeys == {"0_url", "1_locale", "2_access_time", "3_result", "4_detail",
                  "5_redir"}
DerivedKeys == {"6_log", "7_html", "7_text", "7_rsrcs", "7_links"}

\* C11 as stated: a dump with all five flags false decompresses and extracts
\* nothing, the derived fields of its record are four and all null, and the
\* six immediate fields are all populated.
C11_FourNullSixPopulated ==
    PlainDump =>
        /\ ~last.raised /\ NoWorkInLastCall
        /\ Cardinality({k \in DOMAIN ValKeys : ValKeys[k] \notin ImmediateKeys}) = 4
        /\ \A k \in ImmediateKeys : Member(LastRecord, k) # None
        /\ \A k \in DerivedKeys : Member(LastRecord, k) = None

\* C11 amended: a dump with all five flags false, of a record in any state,
\* succeeds without decompressing or extracting anything; in its record the
\* five derived fields are null, url, locale, access_time and result hold the
\* row's values, detail holds the row's detail, which may be null, and the
\* redirect target is redir_url when it differs from url and null otherwise.
C11_PlainDumpDoesNoWork ==
    PlainDump =>
        /\ ~last.raised /\ NoWorkInLastCall
        /\ page = last.prior.page
        /\ \A k \in DerivedKeys : Member(LastRecord, k) = None
        /\ Member(LastRecord, "0_url") = calls.row.url
        /\ Member(LastRecord, "1_locale") = calls.row.locale
        /\ Member(LastRecord, "2_access_time") = isoformat(calls.row.access_time, " ")
        /\ Member(LastRecord, "3_result") = calls.row.result
        /\ Member(LastRecord, "4_detail") = calls.row.detail
        /\ Member(LastRecord, "5_redir") =
               IF calls.row.redir_url = calls.row.url THEN None
               ELSE calls.row.redir_url

\* A record whose HTML was already decompressed and extracted, dumped with no
\* flag set: the derived fields are null all the same, detail and redirect
\* are present.
C11_Witness ==
    /\ PlainDump /\ ~last.fresh
    /\ last.prior.calls.extractions = 1
    /\ Member(LastRecord, "7_html") = None
    /\ Member(LastRecord, "4_detail") # None
    /\ Member(LastRecord, "5_redir") # None

\* C12: when the capture log or the HTML does not decompress, decode or
\* parse, every read of it raises and leaves the record as it was: the
\* unpacked flag false, the raw blob in place, nothing returned by that or any
\* other read, and each read attempting the decode again.
C12_FailedDecodeChangesNothing ==
    /\ last.op = "capture_log" =>
          /\ last.raised <=> ~DecodedLog.ok
          /\ last.raised => page = last.prior.page
    /\ last.op = "html_content" =>
          /\ last.raised <=> ~DecodedHtml.ok
          /\ last.raised => page = last.prior.page
    /\ ~DecodedLog.ok =>
          /\ ~page._capture_log_unpacked
          /\ page._capture_log = calls.row.capture_log
          /\ calls.capture_log_returns = {}
          /\ calls.capture_log_decodes = calls.capture_log_reads
    /\ ~DecodedHtml.ok =>
          /\ ~page._html_content_unpacked
          /\ page._html_content = calls.row.html_content
          /\ calls.html_content_returns = {}
          /\ calls.html_content_decodes = calls.html_content_reads

\* HTML that decompresses but is not UTF-8, read twice: both reads raised,
\* both attempted the decode, the compressed blob is still in place.
C12_Witness ==
    /\ last.op = "html_content" /\ last.raised
    /\ zlib_decompress(calls.row.html_content).ok
    /\ calls.html_content_decodes = 2
    /\ page._html_content = calls.row.html_content
    /\ ~page._html_content_unpacked

\* A derived accessor that the flags of the last call ask for raises on this
\* record's row.
FlaggedAccessorFails ==
    \/ last.flags.capture_log /\ ~DecodedLog.ok
    \/ last.flags.html_content /\ ~DecodedHtml.ok
    \/ AnyExtractionFlag /\ (~DecodedHtml.ok \/ ~Extracted.ok)

\* C13: a dump during which a derived accessor raises writes nothing, so fp
\* holds exactly what the earlier dumps wrote; a dump that succeeds appends
\* one record and one newline after what fp held.
C13_FailedDumpWritesNothing ==
    last.op = "dump" =>
        /\ last.raised <=> FlaggedAccessorFails
        /\ last.raised => fp = last.prior.fp
        /\ ~last.raised =>
              /\ Len(fp) = Len(last.prior.fp) + 2
              /\ SubSeq(fp, 1, Len(last.prior.fp)) = last.prior.fp
              /\ IsRecord(fp[Len(fp) - 1])
              /\ fp[Len(fp)] = Newline

\* A dump that raised in the HTML accessor after the capture log was already
\* put in the dict, on a record whose earlier dump wrote a record: fp holds
\* that record and its newline, nothing else.
C13_Witness ==
    /\ last.op = "dump" /\ last.raised
    /\ last.flags.capture_log /\ DecodedLog.ok
    /\ last.flags.html_content /\ ~DecodedHtml.ok
    /\ Len(fp) = 2 /\ IsRecord(fp[1]) /\ fp[2] = Newline

\* The attributes __init__ sets from the row and nothing assigns afterwards.
ImmediateAttrs == {"locale", "url", "access_time", "result", "detail",
                   "redir_url", "screenshot"}

\* C14: when the HTML does not decompress or decode, every read of
\* text_content, resources and links raises, the extractor is never run and
\* no extraction is cached; and whatever raised, url, locale, access_time,
\* result, detail, redir_url and screenshot still hold the row's values.
C14_FailedHtmlFailsExtraction ==
    /\ ~DecodedHtml.ok =>
          /\ last.op \in {"text_content", "resources", "links"} => last.raised
          /\ calls.extractions = 0 /\ calls.extractor_args = {}
          /\ page._extracted = None
          /\ calls.text_content_returns = {}
          /\ calls.resources_returns = {}
          /\ calls.links_returns = {}
    /\ \A a \in ImmediateAttrs : page[a] = calls.row[a]

\* links read twice on a record whose HTML does not decompress: both reads
\* tried the HTML and raised, the extractor was not run.
C14_Witness ==
    /\ last.op = "links" /\ last.raised
    /\ ~zlib_decompress(calls.row.html_content).ok
    /\ calls.extraction_reads = 2 /\ calls.html_content_decodes = 2
    /\ calls.extractions = 0
    /\ page.url = calls.row.url /\ page.screenshot = calls.row.screenshot

\* What dump writes, and whether it raises, on a record just built from the
\* row of the current record, nothing read from it yet.
DumpOfUntouched(f) ==
    dump([page |-> CapturedPage(calls.row), calls |-> NoCalls(calls.row)], f)

\* C17: whatever was read from a record or dumped of it before, dump writes
\* the bytes, or raises, as it does on an untouched record built from the
\* same row and given the same flags.
C17_DumpIgnoresHistory ==
    last.op = "dump" =>
        /\ last.raised = DumpOfUntouched(last.flags).raised
        /\ SubSeq(fp, Len(last.prior.fp) + 1, Len(fp)) =
               DumpOfUntouched(last.flags).written

\* A second dump of a record whose capture log and extraction were already
\* cached by earlier calls, with the flags that read them again: its bytes
\* are those an untouched record gives.
C17_Witness ==
    /\ last.op = "dump" /\ ~last.raised
    /\ last.prior.calls.dumps = 1
    /\ last.prior.page._capture_log_unpacked
    /\ last.prior.page._extracted # None
    /\ last.flags.capture_log /\ last.flags.links /\ last.flags.html_content
    /\ Member(LastRecord, "6_log") # None
    /\ Member(LastRecord, "7_links") # None

(***************************************************************************)
(* Properties of PageDB.get_pages, checked under SpecDB.                   *)
(***************************************************************************)
\* The iteration of g has been left: the rows ran out, an error was raised,
\* the generator was closed, or the consumer stopped pulling.
Left(g) == gen[g].pc \in {"exhausted", "failed", "closed"} \/ gen[g].abandoned

\* The cursor of g is closed and its portal gone from the server; the
\* connection is out of the transaction the iteration ran in.
CursorReleased(g) ==
    /\ gen[g].cur.closed
    /\ ~\E p \in db.portals : p.name = gen[g].cur.name
ConnectionReleased == db.status = "idle"

\* C3: however the iteration of get_pages is left, its cursor and the
\* connection it held are released.
C3_ReleasedOnEveryExit ==
    \A g \in Gens : Left(g) => CursorReleased(g) /\ ConnectionReleased

\* The rows of the table that the WHERE clause of g selects.
Matching(g) ==
    SelectSeq(table, LAMBDA r : \/ gen[g].args.where_clause = ""
                                \/ Satisfies(r, gen[g].args.where_clause))

\* C6: a retrieval consumed to its end yielded min(limit, N) records of the N
\* rows that match, and all N when no limit was given.
C6_LimitBoundsRows ==
    \A g \in Gens :
        gen[g].pc = "exhausted" =>
            Len(out[g]) = IF gen[g].args.limit = None
                          THEN Len(Matching(g))
                          ELSE Min(gen[g].args.limit.n, Len(Matching(g)))

\* A retrieval with limit 2 consumed to its end: 2 of 3 matching rows.
C6_Witness ==
    /\ gen[1].pc = "exhausted"
    /\ gen[1].args.limit = PyInt(2)
    /\ Len(Matching(1)) = 3
    /\ Len(out[1]) = 2

Count(seq, r) == Cardinality({i \in DOMAIN seq : seq[i] = r})
KeysLess(seq, r) == Cardinality({i \in DOMAIN seq : RowLess(seq[i], r)})

\* C7: with ordered=True the records come in ascending order of (url, locale),
\* and a retrieval consumed to its end yielded the first rows of the matching
\* rows in that order: the record at place i is a matching row with fewer than
\* i matching rows before it in key order.
C7_OrderedBeforeLimit ==
    \A g \in Gens :
        gen[g].pc # "absent" /\ gen[g].args.ordered =>
            /\ \A i \in 1..(Len(out[g]) - 1) : ~RowLess(out[g][i + 1], out[g][i])
            /\ gen[g].pc = "exhausted" =>
                  /\ \A r \in {out[g][i] : i \in DOMAIN out[g]} :
                        Count(out[g], r) <= Count(Matching(g), r)
                  /\ \A i \in DOMAIN out[g] : KeysLess(Matching(g), out[g][i]) < i

\* An ordered retrieval with a limit, over a table whose first row is not the
\* least, consumed to its end.
C7_Witness ==
    /\ gen[1].pc = "exhausted"
    /\ gen[1].args.ordered /\ gen[1].args.limit = PyInt(2)
    /\ Len(table) = 3 /\ Len(Matching(1)) = 3
    /\ RowLess(table[3], table[1]) /\ RowLess(table[3], table[2])
    /\ Len(out[1]) = 2 /\ out[1][1] = table[3]

\* The rows g has fetched from the store and not yet handed to the consumer.
InFlight(g) == Len(gen[g].cur.rows) - gen[g].cur.row

\* C8: the rows fetched from the store and not yet handed over never
\* exceed the batch size, whatever the size of the result set; no fetch brings
\* more than one batch.
C8_BoundedPrefetch ==
    \A g \in Gens :
        gen[g].pc \notin {"absent", "created"} =>
            /\ Len(gen[g].cur.rows) <= 100
            /\ InFlight(g) <= 100
            /\ \A p \in db.portals :
                  p.name = gen[g].cur.name => p.pos - Len(out[g]) <= 100

\* A result set of more than two batches, in the middle of its second batch.
C8_Witness ==
    /\ gen[1].pc = "suspended"
    /\ Len(out[1]) = 150
    /\ InFlight(1) = 50
    /\ \E p \in db.portals : p.pos = 200 /\ Len(p.rows) > 200

\* C16: a retrieval that get_pages was called for and nothing was pulled from
\* holds no cursor and has sent the store nothing: the connection has no
\* transaction and no portal.  A query the store rejects fails the retrieval
\* at its first pull, not before, and yields no record.
C16_NothingRunsBeforeFirstPull ==
    /\ gen[1].pc = "created" =>
          /\ gen[1].cur = None
          /\ db = connect
          /\ out[1] = <<>>
    /\ gen[1].pc # "absent" /\ Rejects(query(gen[1].args)) =>
          /\ gen[1].pc \in {"created", "failed"}
          /\ out[1] = <<>>
          /\ gen[1].pc = "failed" =>
                gen[1].cur # None /\ gen[1].cur.closed /\ db.ended = "rollback"

\* get_pages was called with a where clause the store rejects, over a table
\* that has rows: the call returned a generator and the store saw nothing.
C16_Witness ==
    /\ gen[1].pc = "created"
    /\ gen[1].args.where_clause = Malformed
    /\ table # <<>>
    /\ db = connect /\ gen[1].cur = None

(***************************************************************************)
(* Properties of interleaved retrievals, checked under SpecConc.           *)
(***************************************************************************)
\* The iteration of g is in progress: it is suspended at its yield and the
\* consumer has not given it up.
InProgress(g) == gen[g].pc = "suspended" /\ ~gen[g].abandoned

\* The portal the cursor of g reads from is still declared in an open
\* transaction.
PortalOf(g) == {p \in db.portals : p.name = gen[g].cur.name}
CursorUsable(g) == db.status = "intrans" /\ PortalOf(g) # {}

\* C15: of the retrievals started from one PageDB, two whose cursors are open
\* at the same time never have the same cursor name, and an iteration in
\* progress keeps the portal and the transaction it reads from whatever the
\* other retrieval does.
C15_CursorExclusivelyOwned ==
    /\ \A g, h \in Gens :
          g # h /\ gen[g].cur # None /\ gen[h].cur # None
                /\ ~gen[g].cur.closed /\ ~gen[h].cur.closed =>
              gen[g].cur.name # gen[h].cur.name
    /\ \A g \in Gens : InProgress(g) => CursorUsable(g)

====
